---- MODULE Spec2Model ----
(***************************************************************************)
(* EduHub API (Backend/main.py, database.py, utils.py): the signup, login, *)
(* me and create_material handlers running as concurrent requests against  *)
(* the MongoDB collections users, subjects and materials.                  *)
(*                                                                         *)
(* A request is a slot p of 1..MaxRequests.  Each await of a handler on    *)
(* the store is one atomic step of the slot; the code between two awaits   *)
(* runs inside the step that follows the first.  Strings are sequences of  *)
(* one-character strings, so that lengths and patterns are computed; an    *)
(* ObjectId is two bytes, its text four hex characters.                    *)
(***************************************************************************)
EXTENDS Integers, Sequences, FiniteSets, TLC

\* ------------------------------------------------------------------ bounds
\* Requests that arrive in one run.
MaxRequests == 2
\* Last value of the clock (datetime.utcnow()), in units of the token ttl.
MaxClock == 1

VARIABLES
    users_collection,      \* the documents of database "users"
    subjects_collection,   \* the documents of database "subjects"
    materials_collection,  \* the documents of database "materials"
    users_unique_indexes,  \* the fields of "users" that have a unique index
    next_oid,              \* the next ObjectId the driver hands out
    now,                   \* datetime.utcnow()
    pc,                    \* per request: the await it is suspended at
    request,               \* per request: endpoint, body, Authorization header
    current_user,          \* per request: the result of Depends(get_current_user)
    new_user,              \* per request: signup's new_user before insert_one
    new_material,          \* per request: create_material's new_material
    response               \* per request: the HTTP response sent

vars == <<users_collection, subjects_collection, materials_collection,
          users_unique_indexes, next_oid, now, pc, request, current_user,
          new_user, new_material, response>>

Requests == 1..MaxRequests

\* ----------------------------------------------------------------- strings
Range(s) == {s[i] : i \in 1..Len(s)}

None == <<>>

Lower == {"a","b","c","d","e","f","g","h","i","j","k","l","m",
          "n","o","p","q","r","s","t","u","v","w","x","y","z"}
Upper == {"A","B","C","D","E","F","G","H","I","J","K","L","M",
          "N","O","P","Q","R","S","T","U","V","W","X","Y","Z"}
Digit == {"0","1","2","3","4","5","6","7","8","9"}
HexChars == <<"0","1","2","3","4","5","6","7","8","9","a","b","c","d","e","f">>
UpperHexChars == <<"0","1","2","3","4","5","6","7","8","9","A","B","C","D","E","F">>
HexDigits == Range(HexChars) \cup Range(UpperHexChars)

\* The vertical tab (ASCII 11), written as the character itself.
VerticalTab == ""

\* Py_ISSPACE: the six characters bytes.fromhex skips.
Whitespace == {" ", "\t", "\n", VerticalTab, "\f", "\r"}

\* ObjectId.binary: the bytes of an identifier.
binary(oid) == <<oid \div 256, oid % 256>>

\* str(ObjectId): the lower-case hex text of the bytes.
str(oid) ==
    <<HexChars[((oid \div 4096) % 16) + 1], HexChars[((oid \div 256) % 16) + 1],
      HexChars[((oid \div 16) % 16) + 1], HexChars[(oid % 16) + 1]>>

\* The value of a hex digit of either case.
HexVal(c) == CHOOSE k \in 0..15 : HexChars[k + 1] = c \/ UpperHexChars[k + 1] = c

\* bytes.fromhex(s) as <<ok, bytes>>: whitespace is skipped before each
\* byte, a byte is two hex digits of either case, anything else raises.
RECURSIVE fromhex(_)
fromhex(s) ==
    IF s = <<>> THEN <<TRUE, <<>>>>
    ELSE IF s[1] \in Whitespace THEN fromhex(Tail(s))
    ELSE IF Len(s) >= 2 /\ s[1] \in HexDigits /\ s[2] \in HexDigits
         THEN LET rest == fromhex(SubSeq(s, 3, Len(s)))
              IN <<rest[1], <<(HexVal(s[1]) * 16) + HexVal(s[2])>> \o rest[2]>>
         ELSE <<FALSE, <<>>>>

\* bson.ObjectId.is_valid(s): s is not empty, has the length of an
\* identifier's text and bytes.fromhex reads it.
ObjectId_is_valid(s) == s # <<>> /\ Len(s) = Len(str(0)) /\ fromhex(s)[1]

\* bson.ObjectId(s) of a valid s: the bytes read.
ObjectId(s) == fromhex(s)[2]

\* datetime.isoformat()
isoformat(t) == <<"T", HexChars[t + 1]>>

\* ------------------------------------------------------------------ utils
\* r'^[a-zA-Z0-9._%+-]+@[a-zA-Z0-9.-]+\.[a-zA-Z]{2,}$' ; '$' also matches
\* just before a final newline.
LocalChars == Lower \cup Upper \cup Digit \cup {".", "_", "%", "+", "-"}
DomainChars == Lower \cup Upper \cup Digit \cup {".", "-"}
TldChars == Lower \cup Upper

PatternMatches(s) ==
    \E i \in 1..Len(s), j \in 1..Len(s) :
        /\ s[i] = "@"
        /\ s[j] = "."
        /\ 1 < i
        /\ i + 1 < j
        /\ j + 2 <= Len(s)
        /\ \A k \in 1..(i - 1) : s[k] \in LocalChars
        /\ \A k \in (i + 1)..(j - 1) : s[k] \in DomainChars
        /\ \A k \in (j + 1)..Len(s) : s[k] \in TldChars

validate_email(email) ==
    \/ PatternMatches(email)
    \/ /\ Len(email) > 0
       /\ email[Len(email)] = "\n"
       /\ PatternMatches(SubSeq(email, 1, Len(email) - 1))

PasswordTooShort == "Password must be at least 6 characters long"

\* Mutant: the comparison is off by one, so six characters are refused.
validate_password_off_by_one(password) ==
    IF Len(password) <= 6 THEN <<FALSE, PasswordTooShort>> ELSE <<TRUE, None>>

\* (is_valid, error_message)
validate_password(password) ==
    IF Len(password) < 6 THEN <<FALSE, PasswordTooShort>> ELSE <<TRUE, None>>

\* ------------------------------------------------------------- input values
EmailA == <<"a", "@", "x", ".", "c", "o">>
EmailB == <<"b", "@", "x", ".", "c", "o">>
\* Accepted by pydantic's EmailStr, refused by validate_email's pattern.
EmailBang == <<"a", "!", "@", "x", ".", "c", "o">>
Emails == {EmailA, EmailB, EmailBang}

UserAl == <<"a", "l">>
UserBo == <<"b", "o">>
Usernames == {UserAl, UserBo}

Pw5 == <<"a", "b", "c", "d", "e">>
Pw6 == <<"a", "b", "c", "d", "e", "f">>
Pw7 == <<"s", "e", "c", "r", "e", "t", "1">>

\* The bodies of signup requests: pairs that share the email alone and the
\* username alone, with each other and with the earlier user; a short
\* password; an email the pattern refuses.
SignupBodies ==
    {<<EmailA, UserBo, Pw6>>, <<EmailB, UserAl, Pw6>>, <<EmailB, UserBo, Pw6>>,
     <<EmailB, UserBo, Pw5>>, <<EmailBang, UserBo, Pw6>>}

\* The bodies of login requests: a password that is the one signed up with
\* and one that is not.
LoginBodies == {<<EmailA, Pw6>>, <<EmailA, Pw7>>, <<EmailB, Pw6>>}

Title == <<"t">>

\* ------------------------------------------------------------------- auth
\* Credential Hasher: a one-way transform; verify never throws.
get_password_hash(password) == <<"$">> \o password

verify_password(password, hashed) == hashed = <<"$">> \o password

\* Token Service: process-wide secret and ttl (one clock unit is one ttl).
SECRET_KEY == "secret"
ACCESS_TOKEN_EXPIRE_MINUTES == 1

Sign(key, sub, exp) == <<key, sub, exp>>

\* issue(claims, ttl): subject, absolute expiry now + ttl, signature.
create_access_token(sub, expires_delta) ==
    [fmt |-> "jwt", sub |-> sub, exp |-> now + expires_delta,
     sig |-> Sign(SECRET_KEY, sub, now + expires_delta)]

\* verify(token): Malformed, BadSignature, Expired, or ok.
verify_token(token) ==
    IF token.fmt # "jwt" THEN "Malformed"
    ELSE IF token.sig # Sign(SECRET_KEY, token.sub, token.exp) THEN "BadSignature"
    ELSE IF token.exp < now THEN "Expired"
    ELSE "ok"

NoUser == [_id |-> None]

\* The user document as the auth helpers hand it to a handler: _id as text.
AsLoaded(u) == [u EXCEPT !._id = str(u._id)]

\* find_one: the first matching document in insertion order, or none.
first(found) == CHOOSE u \in found : \A v \in found : u._id <= v._id

\* Identity Resolver, before its await: a bearer token that verifies.
token_accepted(authorization) ==
    authorization.scheme = "Bearer" /\ verify_token(authorization.token) = "ok"

\* Identity Resolver, its await: the user whose email is the token's subject.
get_current_user(authorization) ==
    LET found == {u \in users_collection : u.email = authorization.token.sub}
    IN IF found = {} THEN NoUser ELSE AsLoaded(first(found))

\* Login's lookup by email and password check; NoUser on either failure.
authenticate_user(email, password) ==
    LET found == {u \in users_collection : u.email = email}
    IN IF found = {} THEN NoUser
       ELSE IF verify_password(password, first(found).hashed_password)
            THEN AsLoaded(first(found)) ELSE NoUser

\* ---------------------------------------------------------------- database
\* What insert_one on "users" refuses: a document that repeats, in a field
\* with a unique index, the value of a stored document.
users_unique_index_violated(doc) ==
    \/ "email" \in users_unique_indexes
       /\ \E u \in users_collection : u.email = doc.email
    \/ "username" \in users_unique_indexes
       /\ \E u \in users_collection : u.username = doc.username

\* The seven default subjects init_db inserts into an empty collection.  The
\* driver numbers them from a counter; the first identifier here is 0a00,
\* one whose last byte is zero.
default_subjects ==
    { [_id |-> 2560, code |-> "IOT"], [_id |-> 2561, code |-> "IOT_LAB"],
      [_id |-> 2562, code |-> "PC"], [_id |-> 2563, code |-> "PC_LAB"],
      [_id |-> 2564, code |-> "BDA"], [_id |-> 2565, code |-> "CNS"],
      [_id |-> 2566, code |-> "INTM"] }

\* A user registered by an earlier run of the service.
EarlierUser ==
    [_id |-> 2567, email |-> EmailA, username |-> UserAl,
     hashed_password |-> get_password_hash(Pw6), created_at |-> 0]

\* The database the service starts on: a new one, or the one an earlier run
\* initialised and registered a user in.
NewDatabase == [users |-> {}, subjects |-> {}, unique |-> {}]
EarlierDatabase ==
    [users |-> {EarlierUser}, subjects |-> default_subjects,
     unique |-> {"email", "username"}]

\* The calls of init_db in order; raises is the first that raises, or none.
InitDbCalls ==
    <<"users.create_index email", "users.create_index username",
      "subjects.create_index code", "materials.create_index subject_id",
      "materials.create_index uploaded_by", "subjects.count_documents",
      "subjects.insert_many">>

CallsBefore(raises) ==
    IF raises = "none" THEN Range(InitDbCalls)
    ELSE LET k == CHOOSE i \in 1..Len(InitDbCalls) : InitDbCalls[i] = raises
         IN {InitDbCalls[i] : i \in 1..(k - 1)}

\* init_db: the calls made before one raises take effect; the except clause
\* swallows the exception and startup goes on.
init_db(db, raises) ==
    [users |-> db.users,
     unique |->
         db.unique
         \cup (IF "users.create_index email" \in CallsBefore(raises)
               THEN {"email"} ELSE {})
         \cup (IF "users.create_index username" \in CallsBefore(raises)
               THEN {"username"} ELSE {}),
     subjects |->
         IF raises = "none" /\ db.subjects = {}
         THEN default_subjects ELSE db.subjects]

\* ---------------------------------------------------------------- responses
NoHeaders == {}
NoResponse == [status_code |-> 0, headers |-> NoHeaders, body |-> [pending |-> TRUE]]

HTTPException(status_code, detail, headers) ==
    [status_code |-> status_code, headers |-> headers, body |-> [detail |-> detail]]

\* What the framework sends for an exception no handler catches.
InternalServerError ==
    [status_code |-> 500, headers |-> NoHeaders, body |-> [text |-> "Internal Server Error"]]

Ok(body) == [status_code |-> 200, headers |-> NoHeaders, body |-> body]

InvalidEmailFormat == HTTPException(400, "Invalid email format", NoHeaders)
AlreadyRegistered == HTTPException(400, "Email or username already registered", NoHeaders)
IncorrectEmailOrPassword ==
    HTTPException(401, "Incorrect email or password", {<<"WWW-Authenticate", "Bearer">>})
CouldNotValidateCredentials ==
    HTTPException(401, "Could not validate credentials", {<<"WWW-Authenticate", "Bearer">>})
SubjectNotFound == HTTPException(404, "Subject not found", NoHeaders)

\* class UserResponse: id, email, username, created_at.
UserResponse(id, email, username, created_at) ==
    [id |-> id, email |-> email, username |-> username, created_at |-> created_at]

\* Mutant: the stored document itself is returned as the view.
user_response_whole_document(user) ==
    [user EXCEPT !.created_at = isoformat(user.created_at)]

\* main.py 150-155, 181-186, 197-202: the view built from a user document
\* whose _id is already text.
user_response(user) ==
    UserResponse(user._id, user.email, user.username, isoformat(user.created_at))

TokenResponse(access_token, user) ==
    [access_token |-> access_token, token_type |-> "bearer", user |-> user]

MaterialResponse(m) ==
    [id |-> m._id, subject_id |-> m.subject_id, title |-> m.title,
     content |-> m.content, file_url |-> m.file_url,
     uploaded_by |-> m.uploaded_by, created_at |-> isoformat(m.created_at)]

\* ------------------------------------------------- what a client can present
NoToken == [fmt |-> "none", sub |-> None, exp |-> 0, sig |-> None]
GarbageToken == [fmt |-> "garbage", sub |-> None, exp |-> 0, sig |-> None]

\* A well-formed token signed with a key that is not the service's.
ForgedToken(sub) ==
    [fmt |-> "jwt", sub |-> sub, exp |-> MaxClock + ACCESS_TOKEN_EXPIRE_MINUTES,
     sig |-> Sign("guess", sub, MaxClock + ACCESS_TOKEN_EXPIRE_MINUTES)]

\* A token an earlier run of the service issued, valid until clock 0; the
\* clients of that run present them.
EarlierToken(sub) ==
    [fmt |-> "jwt", sub |-> sub, exp |-> 0, sig |-> Sign(SECRET_KEY, sub, 0)]

\* The tokens this run's signup and login responses carry.
IssuedTokens ==
    {response[p].body.access_token :
        p \in {q \in Requests : /\ request[q].endpoint \in {"signup", "login"}
                                /\ response[q].status_code = 200}}

NoHeader == [scheme |-> "none", token |-> NoToken]
Bearer(token) == [scheme |-> "Bearer", token |-> token]

\* Authorization headers whose token the Token Service refuses whenever it
\* is presented, and those whose token it issued.
RefusedAuthorizations ==
    {NoHeader, Bearer(GarbageToken), Bearer(ForgedToken(EmailA))}
IssuedAuthorizations ==
    (IF EarlierUser \in users_collection
     THEN {Bearer(EarlierToken(EmailA)), Bearer(EarlierToken(EmailB))}
     ELSE {})
    \cup {Bearer(t) : t \in IssuedTokens}
Authorizations == RefusedAuthorizations \cup IssuedAuthorizations

\* subject_id of a MaterialCreate body: the text of a stored subject's
\* identifier in lower and in upper case, the identifier of no subject, text
\* of the right length that fromhex reads as a single byte (the first byte of
\* a stored subject's identifier), and text that fromhex refuses.
SubjectIds ==
    {str(2560), <<"0", "A", "0", "0">>, str(255),
     <<" ", VerticalTab, "0", "a">>, <<"z", "z", "z", "z">>}

\* The create_material requests: each header with the identifier of a stored
\* subject, and the earlier user's token with each subject_id.
MaterialRequests ==
    (Authorizations \X {str(2560)})
    \cup ((IssuedAuthorizations \cap {Bearer(EarlierToken(EarlierUser.email))})
          \X SubjectIds)

\* The headers of me requests.
MeAuthorizations == {NoHeader} \cup IssuedAuthorizations

\* ------------------------------------------------------------------- state
NoRequest == [endpoint |-> "none"]

\* database.py 20-51 on startup: whichever call raises, the service starts.
Init ==
    /\ \E db \in {NewDatabase, EarlierDatabase},
          raises \in {"none"} \cup Range(InitDbCalls) :
           /\ users_collection = init_db(db, raises).users
           /\ subjects_collection = init_db(db, raises).subjects
           /\ users_unique_indexes = init_db(db, raises).unique
    /\ materials_collection = {}
    /\ next_oid = 2568
    /\ now = 0
    /\ pc = [p \in Requests |-> "idle"]
    /\ request = [p \in Requests |-> NoRequest]
    /\ current_user = [p \in Requests |-> NoUser]
    /\ new_user = [p \in Requests |-> None]
    /\ new_material = [p \in Requests |-> None]
    /\ response = [p \in Requests |-> NoResponse]

\* Requests take their slots in order of arrival.
Arrives(p) == pc[p] = "idle" /\ \A q \in 1..(p - 1) : pc[q] # "idle"

Respond(p, r) ==
    /\ pc' = [pc EXCEPT ![p] = "done"]
    /\ response' = [response EXCEPT ![p] = r]

Await(p, label) ==
    /\ pc' = [pc EXCEPT ![p] = label]
    /\ UNCHANGED response

\* ------------------------------------------------------------------ signup
\* main.py 100-115: the validation that precedes the first await.
signup_validation(email, password) ==
    IF ~validate_email(email) THEN InvalidEmailFormat
    ELSE IF ~validate_password(password)[1]
         THEN HTTPException(400, validate_password(password)[2], NoHeaders)
         ELSE NoResponse

signup(p, email, username, password) ==
    /\ Arrives(p)
    /\ request' = [request EXCEPT ![p] =
           [endpoint |-> "signup", email |-> email,
            username |-> username, password |-> password]]
    /\ IF signup_validation(email, password) # NoResponse
       THEN Respond(p, signup_validation(email, password))
       ELSE Await(p, "signup_find_one")
    /\ UNCHANGED <<users_collection, subjects_collection, materials_collection,
                   users_unique_indexes, next_oid, now, current_user,
                   new_user, new_material>>

\* Mutant: the existence check looks at the email alone.
signup_filter_email_only(u, email, username) == u.email = email

\* main.py 118-123: the filter {"$or": [{"email": ..}, {"username": ..}]}.
signup_filter(u, email, username) == u.email = email \/ u.username = username

\* main.py 118-139: the existence check and, when it finds nothing, the
\* document built before insert_one is awaited.
signup_find_one(p) ==
    /\ pc[p] = "signup_find_one"
    /\ LET existing_user ==
               {u \in users_collection :
                   signup_filter(u, request[p].email, request[p].username)}
       IN IF existing_user # {}
          THEN /\ Respond(p, AlreadyRegistered)
               /\ UNCHANGED new_user
          ELSE /\ new_user' = [new_user EXCEPT ![p] =
                      [email |-> request[p].email,
                       username |-> request[p].username,
                       hashed_password |-> get_password_hash(request[p].password),
                       created_at |-> now]]
               /\ Await(p, "signup_insert_one")
    /\ UNCHANGED <<users_collection, subjects_collection, materials_collection,
                   users_unique_indexes, next_oid, now, current_user,
                   new_material, request>>

\* Mutant: the failure of insert_one is swallowed and the token issued anyway.
signup_insert_outcome_token_anyway(inserted) ==
    Ok(TokenResponse(
        create_access_token(inserted.email, ACCESS_TOKEN_EXPIRE_MINUTES),
        user_response([inserted EXCEPT !._id = str(inserted._id)])))

\* main.py 141-161: insert_one raises on a unique index violation and the
\* handler has no except clause, so the framework answers 500; otherwise the
\* token is issued and the public view returned.
signup_insert_outcome(inserted) ==
    IF users_unique_index_violated(inserted)
    THEN InternalServerError
    ELSE Ok(TokenResponse(
             create_access_token(inserted.email, ACCESS_TOKEN_EXPIRE_MINUTES),
             user_response([inserted EXCEPT !._id = str(inserted._id)])))

signup_insert_one(p) ==
    /\ pc[p] = "signup_insert_one"
    /\ LET inserted == [_id |-> next_oid] @@ new_user[p]
       IN /\ users_collection' =
                 IF users_unique_index_violated(inserted)
                 THEN users_collection
                 ELSE users_collection \cup {inserted}
          /\ Respond(p, signup_insert_outcome(inserted))
    /\ next_oid' = next_oid + 1
    /\ UNCHANGED <<subjects_collection, materials_collection,
                   users_unique_indexes, now, current_user, new_user,
                   new_material, request>>

\* ------------------------------------------------------------------- login
login_outcome(user) ==
    IF user = NoUser
    THEN IncorrectEmailOrPassword
    ELSE Ok(TokenResponse(
             create_access_token(user.email, ACCESS_TOKEN_EXPIRE_MINUTES),
             user_response(user)))

\* main.py 163-166: the handler suspends at await authenticate_user.
login(p, email, password) ==
    /\ Arrives(p)
    /\ request' = [request EXCEPT ![p] =
           [endpoint |-> "login", email |-> email, password |-> password]]
    /\ Await(p, "login_authenticate_user")
    /\ UNCHANGED <<users_collection, subjects_collection, materials_collection,
                   users_unique_indexes, next_oid, now, current_user,
                   new_user, new_material>>

\* Mutant: an unknown email gets an answer of its own.
login_reveals_unknown_email(p) ==
    /\ pc[p] = "login_authenticate_user"
    /\ IF \A u \in users_collection : u.email # request[p].email
       THEN Respond(p, HTTPException(404, "User not found", NoHeaders))
       ELSE Respond(p, login_outcome(
                authenticate_user(request[p].email, request[p].password)))
    /\ UNCHANGED <<users_collection, subjects_collection, materials_collection,
                   users_unique_indexes, next_oid, now, current_user,
                   new_user, new_material, request>>

\* main.py 166-192: the user is looked up and checked, and the handler
\* answers; the token's expiry is counted from this step's clock.
login_authenticate_user(p) ==
    /\ pc[p] = "login_authenticate_user"
    /\ Respond(p, login_outcome(
           authenticate_user(request[p].email, request[p].password)))
    /\ UNCHANGED <<users_collection, subjects_collection, materials_collection,
                   users_unique_indexes, next_oid, now, current_user,
                   new_user, new_material, request>>

\* ---------------------------------------------------------------------- me
\* main.py 194-195: Depends(get_current_user) checks the token on arrival and
\* then awaits the user.
get_current_user_info(p, authorization) ==
    /\ Arrives(p)
    /\ request' = [request EXCEPT ![p] =
           [endpoint |-> "me", authorization |-> authorization]]
    /\ IF token_accepted(authorization)
       THEN Await(p, "get_current_user_info_get_user")
       ELSE Respond(p, CouldNotValidateCredentials)
    /\ UNCHANGED <<users_collection, subjects_collection, materials_collection,
                   users_unique_indexes, next_oid, now, current_user,
                   new_user, new_material>>

\* main.py 196-202: the user is loaded and the handler returns its view.
get_current_user_info_get_user(p) ==
    /\ pc[p] = "get_current_user_info_get_user"
    /\ LET user == get_current_user(request[p].authorization)
       IN /\ current_user' = [current_user EXCEPT ![p] = user]
          /\ IF user = NoUser
             THEN Respond(p, CouldNotValidateCredentials)
             ELSE Respond(p, Ok(user_response(user)))
    /\ UNCHANGED <<users_collection, subjects_collection, materials_collection,
                   users_unique_indexes, next_oid, now, new_user,
                   new_material, request>>

\* --------------------------------------------------------- create_material
\* main.py 262-266: Depends(get_current_user) checks the token on arrival and
\* then awaits the user.
create_material(p, authorization, subject_id) ==
    /\ Arrives(p)
    /\ request' = [request EXCEPT ![p] =
           [endpoint |-> "create_material", authorization |-> authorization,
            subject_id |-> subject_id, title |-> Title,
            content |-> None, file_url |-> None]]
    /\ IF token_accepted(authorization)
       THEN Await(p, "create_material_get_user")
       ELSE Respond(p, CouldNotValidateCredentials)
    /\ UNCHANGED <<users_collection, subjects_collection, materials_collection,
                   users_unique_indexes, next_oid, now, current_user,
                   new_user, new_material>>

\* Mutant: the handler body runs whether or not a user was loaded.
create_material_get_user_without_gate(p) ==
    /\ pc[p] = "create_material_get_user"
    /\ current_user' = [current_user EXCEPT ![p] =
           get_current_user(request[p].authorization)]
    /\ IF ~ObjectId_is_valid(request[p].subject_id)
       THEN Respond(p, SubjectNotFound)
       ELSE Await(p, "create_material_find_one")
    /\ UNCHANGED <<users_collection, subjects_collection, materials_collection,
                   users_unique_indexes, next_oid, now, new_user,
                   new_material, request>>

\* main.py 265-278: the user is loaded; without one the handler body does not
\* run; with one it runs up to its first await, which a subject_id that is
\* no identifier's text never reaches.
create_material_get_user(p) ==
    /\ pc[p] = "create_material_get_user"
    /\ LET user == get_current_user(request[p].authorization)
       IN /\ current_user' = [current_user EXCEPT ![p] = user]
          /\ IF user = NoUser
             THEN Respond(p, CouldNotValidateCredentials)
             ELSE IF ~ObjectId_is_valid(request[p].subject_id)
                  THEN Respond(p, SubjectNotFound)
                  ELSE Await(p, "create_material_find_one")
    /\ UNCHANGED <<users_collection, subjects_collection, materials_collection,
                   users_unique_indexes, next_oid, now, new_user,
                   new_material, request>>

\* The outcomes of find_one other than a document.
NoSubject == [found |-> FALSE]
StoreError == [raised |-> "find_one"]

\* The bytes the driver sends for an ObjectId that holds fewer bytes than an
\* identifier.  Its encoder copies an identifier's length from the buffer;
\* the byte after the last is the buffer's terminating zero, the bytes after
\* that are whatever the memory holds.
over_read(bytes) ==
    IF Len(bytes) = Len(binary(0)) THEN {bytes}
    ELSE IF Len(bytes) + 1 = Len(binary(0)) THEN {bytes \o <<0>>}
    ELSE {<<0, b>> : b \in 0..255}

\* main.py 269-272: the outcomes of the subject lookup.  Text that
\* ObjectId.is_valid refuses gives None without a lookup.  An ObjectId of an
\* identifier's length finds the subject with that _id or None.  One with
\* fewer bytes (text with whitespace) is sent as it is: the store refuses the
\* malformed document and find_one raises, or, with the encoder that copies
\* a full identifier, the lookup is made on the bytes read.
find_subject(subject_id) ==
    IF ~ObjectId_is_valid(subject_id) THEN {NoSubject}
    ELSE {IF {s \in subjects_collection : binary(s._id) = id} = {}
          THEN NoSubject
          ELSE first({s \in subjects_collection : binary(s._id) = id}) :
             id \in over_read(ObjectId(subject_id))}
         \cup (IF Len(ObjectId(subject_id)) = Len(binary(0))
               THEN {} ELSE {StoreError})

\* main.py 270-289: the subject lookup and, when it finds one, the document
\* built before insert_one is awaited; an exception of find_one is caught
\* nowhere.
create_material_find_one(p) ==
    /\ pc[p] = "create_material_find_one"
    /\ \E subject \in find_subject(request[p].subject_id) :
           IF subject = StoreError
           THEN /\ Respond(p, InternalServerError)
                /\ UNCHANGED new_material
           ELSE IF subject = NoSubject
           THEN /\ Respond(p, SubjectNotFound)
                /\ UNCHANGED new_material
           ELSE /\ new_material' = [new_material EXCEPT ![p] =
                       [subject_id |-> request[p].subject_id,
                        title |-> request[p].title,
                        content |-> request[p].content,
                        file_url |-> request[p].file_url,
                        uploaded_by |-> current_user[p]._id,
                        created_at |-> now]]
                /\ Await(p, "create_material_insert_one")
    /\ UNCHANGED <<users_collection, subjects_collection, materials_collection,
                   users_unique_indexes, next_oid, now, current_user,
                   new_user, request>>

\* main.py 291-302
create_material_insert_one(p) ==
    /\ pc[p] = "create_material_insert_one"
    /\ LET inserted == [_id |-> next_oid] @@ new_material[p]
       IN /\ materials_collection' = materials_collection \cup {inserted}
          /\ Respond(p, Ok(MaterialResponse([inserted EXCEPT !._id = str(next_oid)])))
    /\ next_oid' = next_oid + 1
    /\ UNCHANGED <<users_collection, subjects_collection,
                   users_unique_indexes, now, current_user, new_user,
                   new_material, request>>

\* ------------------------------------------------------------------- clock
Tick ==
    /\ now < MaxClock
    /\ now' = now + 1
    /\ UNCHANGED <<users_collection, subjects_collection, materials_collection,
                   users_unique_indexes, next_oid, pc, request, current_user,
                   new_user, new_material, response>>

Next ==
    \/ \E p \in Requests, body \in SignupBodies :
          signup(p, body[1], body[2], body[3])
    \/ \E p \in Requests : signup_find_one(p)
    \/ \E p \in Requests : signup_insert_one(p)
    \/ \E p \in Requests, body \in LoginBodies : login(p, body[1], body[2])
    \/ \E p \in Requests : login_authenticate_user(p)
    \/ \E p \in Requests, authorization \in MeAuthorizations :
          get_current_user_info(p, authorization)
    \/ \E p \in Requests : get_current_user_info_get_user(p)
    \/ \E p \in Requests, r \in MaterialRequests : create_material(p, r[1], r[2])
    \/ \E p \in Requests : create_material_get_user(p)
    \/ \E p \in Requests : create_material_find_one(p)
    \/ \E p \in Requests : create_material_insert_one(p)
    \/ Tick

Spec == Init /\ [][Next]_vars

\* =================================================================== claims
IsDone(p, endpoint) == request[p].endpoint = endpoint /\ pc[p] = "done"

\* The signup requests carrying email e whose body passes validation.
ValidSignupsOf(e) ==
    {p \in Requests :
        /\ request[p].endpoint = "signup"
        /\ request[p].email = e
        /\ validate_email(e)
        /\ Len(request[p].password) >= 6}

SignupSucceeded(p) ==
    /\ IsDone(p, "signup")
    /\ response[p].status_code = 200
    /\ DOMAIN response[p].body = {"access_token", "token_type", "user"}

\* u is the record a successful signup of G stored.
StoredBy(G, u) ==
    \E p \in G : SignupSucceeded(p) /\ response[p].body.user.id = str(u._id)

\* C1: of N >= 2 finished signup requests that carry the same (valid, unused)
\* email, whatever the interleaving of their find_one and insert_one, exactly
\* one has a success response, and the store holds exactly one user with
\* that email.  "Unused" is: every stored user that shares the email or one
\* of the requests' usernames was stored by one of these requests.  It fails
\* on a service whose init_db swallowed the failure of create_index.
C1_ExactlyOneSignupWins ==
    \A e \in Emails :
        LET G == ValidSignupsOf(e)
            colliding ==
                {u \in users_collection :
                    \/ u.email = e
                    \/ \E p \in G : u.username = request[p].username}
        IN (/\ Cardinality(G) >= 2
            /\ \A p \in G : pc[p] = "done"
            /\ \A u \in colliding : StoredBy(G, u))
           => /\ Cardinality({p \in G : SignupSucceeded(p)}) = 1
              /\ Cardinality({u \in users_collection : u.email = e}) = 1

\* C2: a signup that passed the existence check and whose insert_one the
\* unique index then refused is answered with the same ConflictError (400,
\* "Email or username already registered") as the check-time duplicate; so
\* every finished, validated signup without a success response carries that
\* answer, never an internal error.
C2_DuplicateInsertIsConflict ==
    \A p \in Requests :
        (/\ IsDone(p, "signup")
         /\ validate_email(request[p].email)
         /\ Len(request[p].password) >= 6
         /\ response[p].status_code # 200)
        => response[p] = AlreadyRegistered

\* C3: no two stored users have the same email, and no two the same username.
\* It fails on a service whose init_db swallowed the failure of create_index.
C3_UsersUnique ==
    \A u, v \in users_collection :
        u # v => (u.email # v.email /\ u.username # v.username)

EmailStored(email) == \E u \in users_collection : u.email = email
UsernameStored(username) == \E u \in users_collection : u.username = username

HasToken(r) == "access_token" \in DOMAIN r.body

\* The existence check of request p, taken with a stored collision.
C4_CheckStep(p) ==
    (/\ pc[p] = "signup_find_one"
     /\ pc'[p] # "signup_find_one"
     /\ (EmailStored(request[p].email) \/ UsernameStored(request[p].username)))
    => /\ pc'[p] = "done"
       /\ response'[p] = AlreadyRegistered
       /\ ~HasToken(response'[p])
       /\ users_collection' = users_collection

C4_EarlierUserConflicts ==
    \A p \in Requests :
        (/\ IsDone(p, "signup")
         /\ validate_email(request[p].email)
         /\ Len(request[p].password) >= 6
         /\ EarlierUser \in users_collection
         /\ (\/ request[p].email = EarlierUser.email
             \/ request[p].username = EarlierUser.username))
        => /\ response[p] = AlreadyRegistered
           /\ ~HasToken(response[p])

\* C4: a validated signup whose email is stored when the existence check
\* runs is answered ConflictError whatever its username, and likewise one
\* whose username is stored whatever its email; the step stores no user and
\* issues no token.  In particular every validated signup that collides with
\* the user stored before the run ends with ConflictError.
C4_StoredIdentityConflicts ==
    /\ []C4_EarlierUserConflicts
    /\ [][\A p \in Requests : C4_CheckStep(p)]_vars

\* One signup collided on the email alone and another on the username alone;
\* both were answered ConflictError and the store still holds one user.
C4_Witness ==
    \E p, q \in Requests :
        /\ IsDone(p, "signup") /\ IsDone(q, "signup")
        /\ response[p] = AlreadyRegistered /\ response[q] = AlreadyRegistered
        /\ EmailStored(request[p].email) /\ ~UsernameStored(request[p].username)
        /\ UsernameStored(request[q].username) /\ ~EmailStored(request[q].email)
        /\ Cardinality(users_collection) = 1

\* What every signup with a short password has come to.
C5_ShortPasswordRefused ==
    \A p \in Requests :
        (request[p].endpoint = "signup" /\ Len(request[p].password) < 6)
        => /\ pc[p] = "done"
           /\ response[p].status_code = 400
           /\ response[p].body \in {[detail |-> PasswordTooShort],
                                   [detail |-> "Invalid email format"]}

C5_Step(p) ==
    /\ (pc[p] = "idle" /\ request'[p].endpoint = "signup")
       => /\ Len(request'[p].password) < 6
             => /\ pc'[p] = "done"
                /\ response'[p].status_code = 400
                /\ ~HasToken(response'[p])
                /\ UNCHANGED <<users_collection, next_oid>>
          /\ (Len(request'[p].password) >= 6 /\ validate_email(request'[p].email))
             => pc'[p] = "signup_find_one"
    /\ (/\ pc[p] = "signup_find_one" /\ pc'[p] # "signup_find_one"
        /\ ~EmailStored(request[p].email)
        /\ ~UsernameStored(request[p].username))
       => pc'[p] = "signup_insert_one"
    /\ (/\ pc[p] = "signup_insert_one" /\ pc'[p] # "signup_insert_one"
        /\ ~EmailStored(request[p].email)
        /\ ~UsernameStored(request[p].username))
       => /\ response'[p].status_code = 200
          /\ HasToken(response'[p])
          /\ \E u \in users_collection' \ users_collection :
                 /\ u.email = request[p].email
                 /\ u.username = request[p].username

\* C5: a signup whose password has fewer than 6 characters is answered 400
\* (ValidationError) in the step it arrives in, without reaching the store's
\* find_one or insert_one, the store unchanged and no token issued; with 6 or
\* more characters and a valid email it passes validation, and with email and
\* username unused at the existence check and at the insert it is answered
\* 200 with a token and its user stored.
C5_PasswordThreshold ==
    /\ []C5_ShortPasswordRefused
    /\ [][\A p \in Requests : C5_Step(p)]_vars

\* A five-character password was refused and a six-character one accepted.
C5_Witness ==
    \E p, q \in Requests :
        /\ IsDone(p, "signup") /\ IsDone(q, "signup")
        /\ Len(request[p].password) = 5
        /\ validate_email(request[p].email)
        /\ response[p] = HTTPException(400, PasswordTooShort, NoHeaders)
        /\ Len(request[q].password) = 6
        /\ response[q].status_code = 200
        /\ \E u \in users_collection : u.email = request[q].email

\* Some stored user has the email and the password of login p.
LoginMatches(p) ==
    \E u \in users_collection :
        /\ u.email = request[p].email
        /\ u.hashed_password = get_password_hash(request[p].password)

LoginFailed(p) == IsDone(p, "login") /\ response[p].status_code # 200

C6_SameFailure ==
    /\ \A p \in Requests : (IsDone(p, "login") /\ ~LoginMatches(p)) => LoginFailed(p)
    /\ \A p, q \in Requests :
           (LoginFailed(p) /\ LoginFailed(q))
           => /\ response[p] = response[q]
              /\ response[p].status_code = 401
              /\ ~HasToken(response[p])

C6_LoginStep(p) ==
    /\ (pc[p] = "idle" /\ request'[p].endpoint = "login")
       => UNCHANGED <<users_collection, subjects_collection, materials_collection>>
    /\ (pc[p] = "login_authenticate_user" /\ pc'[p] # "login_authenticate_user")
       => /\ UNCHANGED <<users_collection, subjects_collection,
                         materials_collection>>
          /\ ~LoginMatches(p) => response'[p] = IncorrectEmailOrPassword

\* C6: a login with an email that is not stored and a login with a stored
\* email and a wrong password get the same response (401, the same message,
\* the same headers); neither carries a token and a login changes no store.
C6_LoginFailuresIndistinguishable ==
    /\ []C6_SameFailure
    /\ [][\A p \in Requests : C6_LoginStep(p)]_vars

\* One login named an email that is not stored, another a stored email with
\* a password that is not the user's.
C6_Witness ==
    \E p, q \in Requests :
        /\ LoginFailed(p) /\ LoginFailed(q)
        /\ ~EmailStored(request[p].email)
        /\ EmailStored(request[q].email) /\ ~LoginMatches(q)
        /\ response[p] = IncorrectEmailOrPassword

\* Every stored hash and every password a request carried.
Secrets ==
    {u.hashed_password : u \in users_collection}
    \cup {request[p].password :
             p \in {q \in Requests : request[q].endpoint \in {"signup", "login"}}}

PublicView(v) ==
    /\ DOMAIN v = {"id", "email", "username", "created_at"}
    /\ \A f \in DOMAIN v : v[f] \notin Secrets

\* C7: the user view in every response of signup, login and me has the
\* fields id, email, username and created_at only, and no field of it, nor
\* the token's subject, is a stored password hash or a password a request
\* carried.
C7_NoHashInResponses ==
    \A p \in Requests :
        /\ ((IsDone(p, "signup") \/ IsDone(p, "login")) /\ response[p].status_code = 200)
           => /\ DOMAIN response[p].body = {"access_token", "token_type", "user"}
              /\ PublicView(response[p].body.user)
              /\ response[p].body.access_token.sub \notin Secrets
        /\ (IsDone(p, "me") /\ response[p].status_code = 200)
           => PublicView(response[p].body)
        /\ (pc[p] = "done" /\ response[p].status_code # 200)
           => DOMAIN response[p].body \subseteq {"detail", "text"}

\* A signup answered with a view and me answered with the view of the same
\* stored user, whose hash is in the store.
C7_Witness ==
    \E p, q \in Requests :
        /\ IsDone(p, "signup") /\ response[p].status_code = 200
        /\ IsDone(q, "me") /\ response[q].status_code = 200
        /\ response[q].body = response[p].body.user
        /\ \E u \in users_collection :
               /\ str(u._id) = response[q].body.id
               /\ u.hashed_password = get_password_hash(request[p].password)

\* The token of header a verifies at the current clock.
Verifies(a) ==
    /\ a.scheme = "Bearer"
    /\ a.token.fmt = "jwt"
    /\ a.token.sig = Sign(SECRET_KEY, a.token.sub, a.token.exp)
    /\ a.token.exp >= now

C8_MaterialsHaveResolvedUploader ==
    /\ \A m \in materials_collection :
           \E p \in Requests :
               /\ IsDone(p, "create_material")
               /\ response[p].status_code = 200
               /\ response[p].body.id = str(m._id)
               /\ response[p].body.uploaded_by = m.uploaded_by
               /\ current_user[p] # NoUser
               /\ m.uploaded_by = current_user[p]._id
               /\ request[p].authorization.token.sig =
                      Sign(SECRET_KEY, request[p].authorization.token.sub,
                           request[p].authorization.token.exp)
               /\ \E u \in users_collection :
                      /\ str(u._id) = m.uploaded_by
                      /\ u.email = request[p].authorization.token.sub
    /\ \A p \in Requests :
           (request[p].endpoint = "create_material" /\ current_user[p] = NoUser)
           => \/ pc[p] = "create_material_get_user"
              \/ pc[p] = "done" /\ response[p].status_code = 401

C8_Step ==
    /\ \A p \in Requests :
           (pc[p] = "idle" /\ request'[p].endpoint = "create_material")
           => /\ materials_collection' = materials_collection
              /\ current_user'[p] = NoUser
              /\ ~Verifies(request'[p].authorization)
                 => /\ pc'[p] = "done"
                    /\ response'[p].status_code = 401
              /\ Verifies(request'[p].authorization)
                 => pc'[p] = "create_material_get_user"
    /\ \A p \in Requests :
           (pc[p] = "create_material_get_user" /\ pc'[p] # pc[p])
           => /\ materials_collection' = materials_collection
              /\ ~EmailStored(request[p].authorization.token.sub)
                 => /\ pc'[p] = "done"
                    /\ response'[p].status_code = 401
                    /\ current_user'[p] = NoUser
              /\ EmailStored(request[p].authorization.token.sub)
                 => /\ current_user'[p] # NoUser
                    /\ current_user'[p].email = request[p].authorization.token.sub
                    /\ response'[p].status_code # 401
    /\ materials_collection' # materials_collection
       => \E p \in Requests :
              /\ pc[p] = "create_material_insert_one"
              /\ pc'[p] = "done"
              /\ current_user[p] # NoUser
              /\ \E m \in materials_collection' :
                     /\ materials_collection' = materials_collection \cup {m}
                     /\ m.uploaded_by = current_user[p]._id

\* C8: a material is inserted only by a create_material request whose
\* identity resolution succeeded, and its uploaded_by is the identifier of
\* the user resolved for that request; a request whose resolution fails (no
\* bearer token, a malformed, badly signed or expired token when it arrives,
\* no stored user for the token's subject when the user is looked up) is
\* answered 401, is given no user and inserts nothing.
C8_IdentityOnlyFromResolver ==
    /\ []C8_MaterialsHaveResolvedUploader
    /\ [][C8_Step]_vars

\* A request with a token that no longer verifies was answered 401 and a
\* request with a valid token stored a material under the resolved user.
C8_Witness ==
    \E p, q \in Requests :
        /\ IsDone(p, "create_material") /\ response[p].status_code = 401
        /\ request[p].authorization.scheme = "Bearer"
        /\ IsDone(q, "create_material") /\ response[q].status_code = 200
        /\ \E m \in materials_collection, u \in users_collection :
               /\ m.uploaded_by = str(u._id)
               /\ response[q].body.uploaded_by = str(u._id)
        /\ Cardinality(materials_collection) = 1

\* C9: every token a signup or login response carries has as subject the
\* email of a stored user; a signup response with a token is that of a stored
\* record with the request's email, and a signup that failed (validation,
\* existence check or insert) carries no token.
C9_TokensNameStoredUsers ==
    /\ \A t \in IssuedTokens : EmailStored(t.sub)
    /\ \A p \in Requests :
           /\ (IsDone(p, "signup") /\ response[p].status_code # 200)
              => ~HasToken(response[p])
           /\ ((IsDone(p, "signup") \/ IsDone(p, "login")) /\ HasToken(response[p]))
              => /\ response[p].body.access_token.sub = request[p].email
                 /\ \E u \in users_collection :
                        /\ u.email = request[p].email
                        /\ str(u._id) = response[p].body.user.id
           /\ (request[p].endpoint = "signup" /\ pc[p] # "done")
              => ~HasToken(response[p])

\* A signup and a later login were both answered with a token for the same
\* stored user.
C9_Witness ==
    \E p, q \in Requests :
        /\ IsDone(p, "signup") /\ HasToken(response[p])
        /\ IsDone(q, "login") /\ HasToken(response[q])
        /\ response[q].body.access_token.sub = request[p].email
        /\ EmailStored(request[p].email)

\* A hex letter in lower case; any other character as it is.
LowerCase(c) ==
    IF \E k \in 1..16 : UpperHexChars[k] = c
    THEN HexChars[CHOOSE k \in 1..16 : UpperHexChars[k] = c]
    ELSE c

\* subject_id is the hex text, in either case, of a stored subject's
\* identifier.
NamesSubject(subject_id) ==
    \E s \in subjects_collection :
        /\ Len(subject_id) = Len(str(s._id))
        /\ \A i \in 1..Len(subject_id) : LowerCase(subject_id[i]) = str(s._id)[i]

C10_MaterialsNameSubjects ==
    /\ \A m \in materials_collection : NamesSubject(m.subject_id)
    /\ \A p \in Requests :
           (request[p].endpoint = "create_material"
            /\ pc[p] = "create_material_insert_one")
           => NamesSubject(request[p].subject_id)

C10_Step(p) ==
    /\ (/\ pc[p] = "create_material_get_user"
        /\ pc'[p] # "create_material_get_user"
        /\ current_user'[p] # NoUser
        /\ ~NamesSubject(request[p].subject_id))
       => /\ materials_collection' = materials_collection
          /\ \/ pc'[p] = "create_material_find_one"
             \/ pc'[p] = "done" /\ response'[p] = SubjectNotFound
          /\ ~ObjectId_is_valid(request[p].subject_id) => pc'[p] = "done"
    /\ (/\ pc[p] = "create_material_find_one"
        /\ pc'[p] # "create_material_find_one"
        /\ ~NamesSubject(request[p].subject_id))
       => /\ pc'[p] = "done"
          /\ response'[p] = SubjectNotFound
          /\ response'[p].status_code = 404
          /\ materials_collection' = materials_collection

\* C10: an authenticated create_material whose subject_id is not a well-formed
\* identifier, or names no stored subject, is answered 404 and leaves the
\* materials unchanged; a request reaches insert_one, and a material is
\* stored, only with a subject_id that names a stored subject.  It fails for
\* text of an identifier's length with whitespace in it, which
\* ObjectId.is_valid accepts and ObjectId reads as fewer bytes.
C10_UnknownSubjectIs404 ==
    /\ []C10_MaterialsNameSubjects
    /\ [][\A p \in Requests : C10_Step(p)]_vars

====
